---- MODULE Spec2Model ----
(***************************************************************************)
(* HybridCache (src/cache.go): a coordinator over an in-process bounded    *)
(* cache (ristretto) and a shared remote store (Redis).                    *)
(*                                                                         *)
(* Every call of a tier engine is one atomic step; a coordinator method    *)
(* is the sequence of the tier calls its code makes, driven by pc.  A      *)
(* caller runs one method at a time; the specifications below run one      *)
(* caller, so the steps of a method are interleaved with nothing but, in   *)
(* SpecTimed, the clock.                                                   *)
(***************************************************************************)
EXTENDS Integers, Sequences, FiniteSets, TLC

----------------------------------------------------------------------------
(* Bounds of the model *)

\* the clock runs from 0 to MaxTime
MaxTime == 3

\* the clock of SpecLifetime runs from 0 to MaxLifetime, past the longest
\* explicit expiration plus the local expiration
MaxLifetime == 6

\* longest key list handed to DelMultipleKeysFromRedis
MaxKeysLen == 2

----------------------------------------------------------------------------
(* Configuration of the coordinator *)

\* HybridCache.ExpiresInMemory, in clock ticks
ExpiresInMemory == 2

\* HybridCache.ExpiresRedis, in clock ticks
ExpiresRedis == 3

\* HybridCacheOption.MaxCost: the cost budget of the local tier; every entry
\* is stored with cost 1
MaxCost == 1

----------------------------------------------------------------------------
(* Values of the model *)

\* the callers; Spec runs caller 1 alone
Procs == {1, 2}

\* keys are strings, modelled as tuples of characters
Keys == { <<"p", "1">>, <<"q", "1">> }

\* the order in which the remote store's SCAN traverses its key space
KeyOrder == << <<"p", "1">>, <<"q", "1">> >>

\* glob patterns handed to DeleteKeysByPatternFromRedis
Patterns == { <<"p", "*">>, <<"*">>, <<"z", "*">> }

\* byte values
Vals == {"a", "b"}

\* explicit expirations handed to SetWithTTL and SetInRedis: one shorter than
\* the local expiration, one longer
TTLs == {1, 3}

Nil == "nil"
NoExpiry == -1
NoEntry == [val |-> Nil, exp |-> NoExpiry]
NoKey == <<>>

VARIABLES
  now,      \* the clock
  local,    \* HybridCache.InMemoryCache: key -> entry
  remote,   \* the store behind HybridCache.Redis: key -> entry
  origin,   \* history: which operation wrote each local entry
  sync,     \* history: whether each local entry was written to both tiers
  pc,       \* each caller's position
  call,     \* each caller's current (or last) call and its arguments
  loc,      \* each caller's locals and results of that call
  prev,     \* history: the Set or Del completed just before the current call
  kv        \* history: the plain key-value map the calls so far amount to

vars == <<now, local, remote, origin, sync, pc, call, loc, prev, kv>>

----------------------------------------------------------------------------
(* The two tier engines *)

\* an engine that never expires an entry
ExpOf_Never(t, ttl) == NoExpiry

\* expiration instant of an entry written at time t with the given ttl
ExpOf(t, ttl) == IF ttl = 0 THEN NoExpiry ELSE t + ttl

\* an entry is served while it is stored and its expiration has not passed
Live(e, t) == e.val # Nil /\ (e.exp = NoExpiry \/ ~(t > e.exp))

Stored(l) == {k \in Keys : l[k].val # Nil}

\* InMemoryCache.SetWithTTL(key, value, 1, ttl) followed by Wait(): the
\* possible results, each the new local map and whether the entry was
\* admitted.  An update of a stored key always lands; a new key is admitted
\* while the cost budget has room; at full budget the admission policy
\* either drops the new entry or evicts a victim to make room.
LocalSetWithTTL(l, t, k, v, ttl) ==
  LET e == [val |-> v, exp |-> ExpOf(t, ttl)] IN
  IF ttl < 0 THEN { [l |-> l, admitted |-> FALSE] }
  ELSE IF l[k].val # Nil \/ Cardinality(Stored(l)) < MaxCost
  THEN { [l |-> [l EXCEPT ![k] = e], admitted |-> TRUE] }
  ELSE { [l |-> l, admitted |-> FALSE] }
       \cup { [l |-> [l EXCEPT ![u] = NoEntry, ![k] = e], admitted |-> TRUE] :
              u \in Stored(l) }

\* InMemoryCache.Get(key)
LocalGet(l, t, k) ==
  IF Live(l[k], t) THEN [found |-> TRUE, value |-> l[k].val]
  ELSE [found |-> FALSE, value |-> Nil]

\* InMemoryCache.Del(key)
LocalDel(l, k) == [l EXCEPT ![k] = NoEntry]

\* Redis SET key value [EX ttl], when the command reaches the store
RedisSet(r, t, k, v, ttl) == [r EXCEPT ![k] = [val |-> v, exp |-> ExpOf(t, ttl)]]

\* Redis GET key: the reply, or redis.Nil for an absent or expired key
RedisGet(r, t, k) ==
  IF Live(r[k], t) THEN [found |-> TRUE, value |-> r[k].val]
  ELSE [found |-> FALSE, value |-> Nil]

\* the keys among ks that a Redis DEL removes: its reply is their number
Removed(r, t, ks) == {k \in Keys : Live(r[k], t) /\ \E i \in 1..Len(ks) : ks[i] = k}

\* Redis DEL of every key of a pipeline
RECURSIVE RedisDelAll(_, _)
RedisDelAll(r, ks) ==
  IF ks = <<>> THEN r
  ELSE RedisDelAll([r EXCEPT ![Head(ks)] = NoEntry], Tail(ks))

\* Redis glob matching of MATCH pattern against a key ('*' and '?')
RECURSIVE Match(_, _)
Match(pat, s) ==
  IF pat = <<>> THEN s = <<>>
  ELSE IF Head(pat) = "*"
       THEN Match(Tail(pat), s) \/ (s # <<>> /\ Match(pat, Tail(s)))
  ELSE IF Head(pat) = "?"
       THEN s # <<>> /\ Match(Tail(pat), Tail(s))
  ELSE s # <<>> /\ Head(s) = Head(pat) /\ Match(Tail(pat), Tail(s))

\* the live keys matching pat among slots from+1..to of the key space, in
\* traversal order
RECURSIVE ScanSlots(_, _, _, _, _)
ScanSlots(r, t, pat, from, to) ==
  IF from >= to THEN <<>>
  ELSE LET k == KeyOrder[from + 1] IN
       (IF Live(r[k], t) /\ Match(pat, k) THEN <<k>> ELSE <<>>)
         \o ScanSlots(r, t, pat, from + 1, to)

\* Redis SCAN cursor MATCH pat COUNT n: the page covers the slots from the
\* cursor up to `to` (COUNT is a hint, the store picks the page); the next
\* cursor is 0 when the traversal is complete
RedisScan(r, t, cursor, pat, to) ==
  [keys |-> ScanSlots(r, t, pat, cursor, to),
   cursor |-> IF to = Len(KeyOrder) THEN 0 ELSE to]

----------------------------------------------------------------------------
(* Calls *)

NoCmd == [cmd |-> "none", key |-> NoKey, val |-> Nil, ttl |-> 0, cursor |-> 0,
          at |-> 0]

NoCall == [op |-> "none", key |-> NoKey, val |-> Nil, ttl |-> 0,
           keys |-> <<>>, pattern |-> <<>>]

\* locals and results of a call:
\*   found, value  what a read returned
\*   err           the error the method returned (FALSE is nil)
\*   admitted      the local engine admitted the entry of the local write
\*   rok           no remote command of the call failed
\*   cursor, acc   cursor and keys of the scan loop
\*   pages         scan pages received
\*   rcalls        remote commands issued, execs: pipelines executed
\*   n             the count the last DEL or pipeline of DELs replied
\*   t0            the time the call began
\*   lcmd, rcmd    the last write handed to the local engine / remote client
\*   at            the time of the call's latest step
\*   conc          history: "none" while the call has run alone, "one" when it
\*                 has overlapped the current call of another caller and no
\*                 other, "many" when it has overlapped several calls
NoLoc == [found |-> FALSE, value |-> Nil, err |-> FALSE, admitted |-> FALSE,
          rok |-> TRUE, cursor |-> 0, acc |-> <<>>, pages |-> 0,
          rcalls |-> 0, execs |-> 0, n |-> 0, lcmd |-> NoCmd, rcmd |-> NoCmd,
          t0 |-> 0, at |-> 0, conc |-> "none"]

NoPrev == [op |-> "none", key |-> NoKey, val |-> Nil, admitted |-> FALSE,
           rok |-> TRUE, n |-> 0, at |-> 0]

\* kv when the calls so far are not a history of Set, Get and Del made one
\* at a time, with no remote command failed and no time passed
Untracked == [on |-> FALSE, map |-> [k \in Keys |-> Nil]]

\* key lists of length at most MaxKeysLen
KeyLists == UNION { [1..n -> Keys] : n \in 0..MaxKeysLen }

Ready(p) == pc[p] \in {"idle", "done"}

\* what prev keeps of a completed call c with locals l: a Set or a Del; a
\* Get that found nothing, which prev goes on keeping through the direct
\* SetInRedis calls that follow it
Summary(c, l) ==
  IF c.op \in {"Set", "Del"}
  THEN [op |-> c.op, key |-> c.key, val |-> c.val, admitted |-> l.admitted,
        rok |-> l.rok, n |-> l.n, at |-> l.at]
  ELSE IF c.op = "Get" /\ ~l.found
  THEN [op |-> "Get", key |-> c.key, val |-> Nil, admitted |-> FALSE,
        rok |-> l.rok, n |-> 0, at |-> 0]
  ELSE IF c.op = "SetInRedis" /\ prev.op = "Get" THEN prev
  ELSE NoPrev

\* kv after caller p has entered method op: Set and Del update the map, Get
\* reads it
MapAfter(p, op, k, v) ==
  IF ~kv.on \/ \E q \in Procs \ {p} : pc[q] # "idle" THEN Untracked
  ELSE IF op = "Set" THEN [kv EXCEPT !.map[k] = v]
  ELSE IF op = "Del" THEN [kv EXCEPT !.map[k] = Nil]
  ELSE IF op = "Get" THEN kv
  ELSE Untracked

\* kv after a remote command: ok is whether the command succeeded
Reliable(ok) == IF ok THEN kv ELSE Untracked

\* conc of caller q's call once caller p has entered a call
Overlap(p, q) ==
  IF q = p THEN (IF \E r \in Procs \ {p} : ~Ready(r) THEN "one" ELSE "none")
  ELSE IF Ready(q) THEN "none"
  ELSE IF loc[q].conc = "none" THEN "one"
  ELSE "many"

\* a caller enters method op: the call it has just completed becomes prev
Begin(p, op, k, v, ttl, ks, pat, to) ==
  /\ Ready(p)
  /\ call' = [call EXCEPT ![p] = [op |-> op, key |-> k, val |-> v, ttl |-> ttl,
                                  keys |-> ks, pattern |-> pat]]
  /\ loc' = [q \in Procs |->
               IF q = p THEN [NoLoc EXCEPT !.t0 = now, !.at = now,
                                           !.conc = Overlap(p, p)]
               ELSE [loc[q] EXCEPT !.conc = Overlap(p, q)]]
  /\ prev' = Summary(call[p], loc[p])
  /\ kv' = MapAfter(p, op, k, v)
  /\ pc' = [pc EXCEPT ![p] = to]
  /\ UNCHANGED <<now, local, remote, origin, sync>>

Init ==
  /\ now = 0
  /\ local = [k \in Keys |-> NoEntry]
  /\ remote = [k \in Keys |-> NoEntry]
  /\ origin = [k \in Keys |-> "none"]
  /\ sync = [k \in Keys |-> "synced"]
  /\ pc = [p \in Procs |-> "idle"]
  /\ call = [p \in Procs |-> NoCall]
  /\ loc = [p \in Procs |-> NoLoc]
  /\ prev = NoPrev
  /\ kv = [on |-> TRUE, map |-> [k \in Keys |-> Nil]]

\* time passes
Tick ==
  /\ now < MaxTime
  /\ now' = now + 1
  /\ kv' = Untracked
  /\ UNCHANGED <<local, remote, origin, sync, pc, call, loc, prev>>

\* origin of the local entries after a local write by `who` with result x
OriginAfter(x, k, who) ==
  [j \in Keys |-> IF x.l[j].val = Nil THEN "none"
                  ELSE IF j = k /\ x.admitted THEN who
                  ELSE origin[j]]

\* sync of the local entries after a local write by `who` with result x: a
\* Set, SetWithTTL or promotion of Get writes the value the remote tier is
\* given or gave, a direct SetInMemoryCache writes the local tier alone
SyncAfter(x, k, who) ==
  [j \in Keys |-> IF x.l[j].val = Nil THEN "synced"
                  ELSE IF j = k /\ x.admitted
                       THEN (IF who = "direct" THEN "local_only" ELSE "synced")
                  ELSE sync[j]]

\* sync after the remote entries of the keys ks were changed alone
RemoteChanged(ks) ==
  [j \in Keys |-> IF j \in ks /\ local[j].val # Nil /\ sync[j] = "synced"
                  THEN "remote_changed" ELSE sync[j]]

\* SetInMemoryCache(key, value): SetWithTTL with cost 1 and the configured
\* local expiration, then Wait
SetInMemoryCache(p, k, v, who, to) ==
  \E x \in LocalSetWithTTL(local, now, k, v, ExpiresInMemory) :
    /\ local' = x.l
    /\ origin' = OriginAfter(x, k, who)
    /\ sync' = SyncAfter(x, k, who)
    /\ loc' = [loc EXCEPT ![p].admitted = x.admitted,
                          ![p].at = now,
                          ![p].lcmd = [cmd |-> "SetWithTTL", key |-> k,
                                       val |-> v, ttl |-> ExpiresInMemory,
                                       cursor |-> 0, at |-> now]]
    /\ pc' = [pc EXCEPT ![p] = to]
    /\ UNCHANGED <<now, remote, call, prev, kv>>

\* SetInRedis(ctx, key, value, expiration): the result of Redis.Set is
\* dropped; ok is whether the command reached the store
SetInRedis(p, k, v, ttl, ok, to) ==
  /\ remote' = IF ok THEN RedisSet(remote, now, k, v, ttl) ELSE remote
  /\ sync' = IF call[p].op \in {"Set", "SetWithTTL"}
             THEN (IF ok \/ local[k].val = Nil THEN sync
                   ELSE [sync EXCEPT ![k] = "local_only"])
             ELSE IF ok THEN RemoteChanged({k}) ELSE sync
  /\ loc' = [loc EXCEPT ![p].rok = ok,
                        ![p].at = now,
                        ![p].rcalls = @ + 1,
                        ![p].rcmd = [cmd |-> "SET", key |-> k, val |-> v,
                                     ttl |-> ttl, cursor |-> 0, at |-> now]]
  /\ kv' = Reliable(ok)
  /\ pc' = [pc EXCEPT ![p] = to]
  /\ UNCHANGED <<now, local, origin, call, prev>>

\* a Set that begins with its remote write
CallSet_RemoteFirst(p, k, v) ==
  Begin(p, "Set", k, v, 0, <<>>, <<>>, "set_remote")

\* Set(key, value)
CallSet(p, k, v) == Begin(p, "Set", k, v, 0, <<>>, <<>>, "set_local")

\* SetWithTTL(key, value, expiration)
CallSetWithTTL(p, k, v, ttl) ==
  Begin(p, "SetWithTTL", k, v, ttl, <<>>, <<>>, "set_local")

\* first statement of Set and SetWithTTL
SetLocal(p) ==
  /\ pc[p] = "set_local"
  /\ SetInMemoryCache(p, call[p].key, call[p].val, "put", "set_remote")

\* a SetWithTTL that drops its expiration argument
RemoteTTL_Default(c) == ExpiresRedis

\* the expiration Set / SetWithTTL hands to SetInRedis
RemoteTTL(c) == IF c.op = "Set" THEN ExpiresRedis ELSE c.ttl

\* a Set that issues its remote write once more when it has failed
SetRemote_Retries(p) ==
  /\ pc[p] = "set_remote"
  /\ \E ok \in BOOLEAN :
       SetInRedis(p, call[p].key, call[p].val, RemoteTTL(call[p]), ok,
                  IF ok \/ loc[p].rcalls > 0 THEN "done" ELSE "set_remote")

\* a Set that writes the local tier alone
SetRemote_Skipped(p) ==
  /\ pc[p] = "set_remote"
  /\ pc' = [pc EXCEPT ![p] = "done"]
  /\ UNCHANGED <<now, local, remote, origin, sync, call, loc, prev, kv>>

\* second statement of Set and SetWithTTL
SetRemote(p) ==
  /\ pc[p] = "set_remote"
  /\ \E ok \in BOOLEAN :
       SetInRedis(p, call[p].key, call[p].val, RemoteTTL(call[p]), ok, "done")

\* Get(key)
CallGet(p, k) == Begin(p, "Get", k, Nil, 0, <<>>, <<>>, "get_local")

\* GetFromInMemoryCache(key): found is the next position on a hit, miss on
\* a miss
GetFromInMemoryCache(p, k, hit, miss) ==
  LET x == LocalGet(local, now, k) IN
  /\ loc' = [loc EXCEPT ![p].found = x.found, ![p].value = x.value,
                        ![p].at = now]
  /\ pc' = [pc EXCEPT ![p] = IF x.found THEN hit ELSE miss]
  /\ UNCHANGED <<now, local, remote, origin, sync, call, prev, kv>>

\* a GetFromRedis that takes a failed command for a hit with no data
GetFromRedis_ErrorIsHit(p, k, ok, hit, miss) ==
  LET x == IF ok THEN RedisGet(remote, now, k)
           ELSE [found |-> TRUE, value |-> "a"] IN
  /\ loc' = [loc EXCEPT ![p].found = x.found, ![p].value = x.value,
                        ![p].rok = ok, ![p].rcalls = @ + 1, ![p].at = now]
  /\ kv' = Reliable(ok)
  /\ pc' = [pc EXCEPT ![p] = IF x.found THEN hit ELSE miss]
  /\ UNCHANGED <<now, local, remote, origin, sync, call, prev>>

\* GetFromRedis(ctx, key): an error of Redis.Get, redis.Nil or a failure of
\* the command alike, is (nil, false); ok is whether the command succeeded
GetFromRedis(p, k, ok, hit, miss) ==
  LET x == IF ok THEN RedisGet(remote, now, k)
           ELSE [found |-> FALSE, value |-> Nil] IN
  /\ loc' = [loc EXCEPT ![p].found = x.found, ![p].value = x.value,
                        ![p].rok = ok, ![p].rcalls = @ + 1, ![p].at = now]
  /\ kv' = Reliable(ok)
  /\ pc' = [pc EXCEPT ![p] = IF x.found THEN hit ELSE miss]
  /\ UNCHANGED <<now, local, remote, origin, sync, call, prev>>

\* a Get that answers from the local tier alone
GetLocal_NoFallback(p) ==
  /\ pc[p] = "get_local"
  /\ GetFromInMemoryCache(p, call[p].key, "done", "done")

\* Get: the local lookup
GetLocal(p) ==
  /\ pc[p] = "get_local"
  /\ GetFromInMemoryCache(p, call[p].key, "done", "get_remote")

\* a Get that writes to the local tier whatever the remote lookup returned
GetRemote_PromotesMiss(p) ==
  /\ pc[p] = "get_remote"
  /\ \E ok \in BOOLEAN :
       GetFromRedis(p, call[p].key, ok, "get_promote", "get_promote")

\* Get: the remote lookup on a local miss
GetRemote(p) ==
  /\ pc[p] = "get_remote"
  /\ \E ok \in BOOLEAN :
       GetFromRedis(p, call[p].key, ok, "get_promote", "done")

\* a Get that returns the remote value without writing it to the local tier
GetPromote_Skipped(p) ==
  /\ pc[p] = "get_promote"
  /\ loc' = [loc EXCEPT ![p].at = now]
  /\ pc' = [pc EXCEPT ![p] = "done"]
  /\ UNCHANGED <<now, local, remote, origin, sync, call, prev, kv>>

\* Get: the value found remotely is written to the local tier
GetPromote(p) ==
  /\ pc[p] = "get_promote"
  /\ SetInMemoryCache(p, call[p].key, loc[p].value, "promote", "done")

\* DelFromInMemoryCache(key)
DelFromInMemoryCache(p, k, to) ==
  /\ local' = LocalDel(local, k)
  /\ origin' = [origin EXCEPT ![k] = "none"]
  /\ sync' = [sync EXCEPT ![k] = "synced"]
  /\ loc' = [loc EXCEPT ![p].at = now]
  /\ pc' = [pc EXCEPT ![p] = to]
  /\ UNCHANGED <<now, remote, call, prev, kv>>

\* DelFromRedis(ctx, key): the result of Redis.Del is dropped
DelFromRedis(p, k, ok, to) ==
  /\ remote' = IF ok THEN RedisDelAll(remote, <<k>>) ELSE remote
  /\ sync' = IF ok THEN RemoteChanged({k}) ELSE sync
  /\ loc' = [loc EXCEPT ![p].rok = ok, ![p].rcalls = @ + 1, ![p].at = now,
                        ![p].n = IF ok THEN Cardinality(Removed(remote, now, <<k>>))
                                 ELSE 0,
                        ![p].rcmd = [cmd |-> "DEL", key |-> k, val |-> Nil,
                                     ttl |-> 0, cursor |-> 0, at |-> now]]
  /\ kv' = Reliable(ok)
  /\ pc' = [pc EXCEPT ![p] = to]
  /\ UNCHANGED <<now, local, origin, call, prev>>

\* Del(key)
CallDel(p, k) == Begin(p, "Del", k, Nil, 0, <<>>, <<>>, "del_local")

\* a Del that leaves the local tier alone
DelLocal_Skipped(p) ==
  /\ pc[p] = "del_local"
  /\ pc' = [pc EXCEPT ![p] = "del_remote"]
  /\ UNCHANGED <<now, local, remote, origin, sync, call, loc, prev, kv>>

\* Del: the local delete
DelLocal(p) ==
  /\ pc[p] = "del_local"
  /\ DelFromInMemoryCache(p, call[p].key, "del_remote")

\* a Del that leaves the remote tier alone
DelRemote_Skipped(p) ==
  /\ pc[p] = "del_remote"
  /\ pc' = [pc EXCEPT ![p] = "done"]
  /\ UNCHANGED <<now, local, remote, origin, sync, call, loc, prev, kv>>

\* Del: the remote delete
DelRemote(p) ==
  /\ pc[p] = "del_remote"
  /\ \E ok \in BOOLEAN : DelFromRedis(p, call[p].key, ok, "done")

\* a pipeline that deletes its keys from the local tier as well
PipelineDel_BothTiers(p, ks, ok) ==
  /\ remote' = IF ok THEN RedisDelAll(remote, ks) ELSE remote
  /\ local' = RedisDelAll(local, ks)
  /\ sync' = [k \in Keys |-> "synced"]
  /\ loc' = [loc EXCEPT ![p].rok = ok, ![p].err = ~ok, ![p].at = now,
                        ![p].rcalls = @ + 1, ![p].execs = @ + 1]
  /\ pc' = [pc EXCEPT ![p] = "done"]
  /\ origin' = [k \in Keys |-> IF local'[k].val = Nil THEN "none" ELSE origin[k]]
  /\ UNCHANGED <<now, call, prev, kv>>

\* a pipeline of one DEL per key, executed: on failure Exec's error is
\* returned
PipelineDel(p, ks, ok) ==
  /\ remote' = IF ok THEN RedisDelAll(remote, ks) ELSE remote
  /\ sync' = IF ok THEN RemoteChanged({ks[i] : i \in 1..Len(ks)}) ELSE sync
  /\ loc' = [loc EXCEPT ![p].rok = ok, ![p].err = ~ok, ![p].at = now,
                        ![p].n = IF ok THEN Cardinality(Removed(remote, now, ks))
                                 ELSE 0,
                        ![p].rcalls = @ + 1, ![p].execs = @ + 1]
  /\ pc' = [pc EXCEPT ![p] = "done"]
  /\ UNCHANGED <<now, local, origin, call, prev, kv>>

\* a DelMultipleKeysFromRedis that runs its pipeline whatever the keys
CallDelMultipleKeysFromRedis_NoCheck(p, ks) ==
  Begin(p, "DelMultipleKeysFromRedis", NoKey, Nil, 0, ks, <<>>, "dm_exec")

\* DelMultipleKeysFromRedis(ctx, keys): returns nil at once for no keys
CallDelMultipleKeysFromRedis(p, ks) ==
  Begin(p, "DelMultipleKeysFromRedis", NoKey, Nil, 0, ks, <<>>,
        IF Len(ks) = 0 THEN "done" ELSE "dm_exec")

DelMultipleExec(p) ==
  /\ pc[p] = "dm_exec"
  /\ \E ok \in BOOLEAN : PipelineDel(p, call[p].keys, ok)

\* DeleteKeysByPatternFromRedis(ctx, pattern): keys empty, cursor 0
CallDeleteKeysByPatternFromRedis(p, pat) ==
  Begin(p, "DeleteKeysByPatternFromRedis", NoKey, Nil, 0, <<>>, pat, "dp_scan")

\* a scan loop that deletes as soon as it holds keys
AfterPage_DeletesEarly(pg, keys) ==
  IF Len(keys) # 0 THEN "dp_exec"
  ELSE IF pg.cursor # 0 THEN "dp_scan" ELSE "done"

\* a scan loop that stops at an empty page
AfterPage_StopsAtEmptyPage(pg, keys) ==
  IF pg.cursor # 0 /\ Len(pg.keys) # 0 THEN "dp_scan"
  ELSE IF Len(keys) = 0 THEN "done" ELSE "dp_exec"

\* where the scan loop goes after page pg, keys being the keys accumulated
\* so far: round again while the cursor is not 0; after the loop, return
\* nil for no keys, else run the pipeline
AfterPage(pg, keys) ==
  IF pg.cursor # 0 THEN "dp_scan"
  ELSE IF Len(keys) = 0 THEN "done" ELSE "dp_exec"

\* a scan loop that hands every SCAN the cursor 0
ScanPage_FromStart(p) ==
  /\ pc[p] = "dp_scan"
  /\ \E ok \in BOOLEAN, to \in 1..Len(KeyOrder) :
       LET pg == RedisScan(remote, now, 0, call[p].pattern, to)
           keys == loc[p].acc \o pg.keys
       IN  /\ loc' = [loc EXCEPT
                        ![p].rok = ok, ![p].err = ~ok, ![p].at = now,
                        ![p].rcalls = @ + 1,
                        ![p].rcmd = [cmd |-> "SCAN", key |-> call[p].pattern,
                                     val |-> Nil, ttl |-> 0,
                                     cursor |-> 0, at |-> now],
                        ![p].pages = IF ok THEN 1 ELSE @,
                        ![p].acc = IF ok THEN pg.keys ELSE @,
                        ![p].cursor = IF ok THEN pg.cursor ELSE @]
           /\ pc' = [pc EXCEPT ![p] = IF ok THEN AfterPage(pg, keys)
                                      ELSE "done"]
  /\ UNCHANGED <<now, local, remote, origin, sync, call, prev, kv>>

\* one round of the scan loop: a failed page returns its error
ScanPage(p) ==
  /\ pc[p] = "dp_scan"
  /\ \E ok \in BOOLEAN, to \in (loc[p].cursor + 1)..Len(KeyOrder) :
       LET pg == RedisScan(remote, now, loc[p].cursor, call[p].pattern, to)
           keys == loc[p].acc \o pg.keys
       IN  /\ loc' = [loc EXCEPT
                        ![p].rok = ok, ![p].err = ~ok, ![p].at = now,
                        ![p].rcalls = @ + 1,
                        ![p].rcmd = [cmd |-> "SCAN", key |-> call[p].pattern,
                                     val |-> Nil, ttl |-> 0,
                                     cursor |-> loc[p].cursor, at |-> now],
                        ![p].pages = IF ok THEN @ + 1 ELSE @,
                        ![p].acc = IF ok THEN keys ELSE @,
                        ![p].cursor = IF ok THEN pg.cursor ELSE @]
           /\ pc' = [pc EXCEPT ![p] = IF ok THEN AfterPage(pg, keys)
                                      ELSE "done"]
  /\ UNCHANGED <<now, local, remote, origin, sync, call, prev, kv>>

\* the pipeline deleting the accumulated keys
DeleteByPatternExec(p) ==
  /\ pc[p] = "dp_exec"
  /\ \E ok \in BOOLEAN : PipelineDel(p, loc[p].acc, ok)

----------------------------------------------------------------------------
(* The tier-scoped methods, called directly *)

CallSetInMemoryCache(p, k, v) ==
  Begin(p, "SetInMemoryCache", k, v, 0, <<>>, <<>>, "tier_lset")

TierLocalSet(p) ==
  /\ pc[p] = "tier_lset"
  /\ SetInMemoryCache(p, call[p].key, call[p].val, "direct", "done")

CallSetInRedis(p, k, v, ttl) ==
  Begin(p, "SetInRedis", k, v, ttl, <<>>, <<>>, "tier_rset")

TierRemoteSet(p) ==
  /\ pc[p] = "tier_rset"
  /\ \E ok \in BOOLEAN :
       SetInRedis(p, call[p].key, call[p].val, call[p].ttl, ok, "done")

CallGetFromInMemoryCache(p, k) ==
  Begin(p, "GetFromInMemoryCache", k, Nil, 0, <<>>, <<>>, "tier_lget")

TierLocalGet(p) ==
  /\ pc[p] = "tier_lget"
  /\ GetFromInMemoryCache(p, call[p].key, "done", "done")

CallGetFromRedis(p, k) ==
  Begin(p, "GetFromRedis", k, Nil, 0, <<>>, <<>>, "tier_rget")

TierRemoteGet(p) ==
  /\ pc[p] = "tier_rget"
  /\ \E ok \in BOOLEAN : GetFromRedis(p, call[p].key, ok, "done", "done")

CallDelFromInMemoryCache(p, k) ==
  Begin(p, "DelFromInMemoryCache", k, Nil, 0, <<>>, <<>>, "tier_ldel")

TierLocalDel(p) ==
  /\ pc[p] = "tier_ldel"
  /\ DelFromInMemoryCache(p, call[p].key, "done")

CallDelFromRedis(p, k) ==
  Begin(p, "DelFromRedis", k, Nil, 0, <<>>, <<>>, "tier_rdel")

TierRemoteDel(p) ==
  /\ pc[p] = "tier_rdel"
  /\ \E ok \in BOOLEAN : DelFromRedis(p, call[p].key, ok, "done")

----------------------------------------------------------------------------
(* Specifications *)

\* a caller enters one of the coordinator's composite methods
CallCoordinator(p) ==
  \/ \E k \in Keys, v \in Vals : CallSet(p, k, v)
  \/ \E k \in Keys, v \in Vals, ttl \in TTLs : CallSetWithTTL(p, k, v, ttl)
  \/ \E k \in Keys : CallGet(p, k)
  \/ \E k \in Keys : CallDel(p, k)
  \/ \E ks \in KeyLists : CallDelMultipleKeysFromRedis(p, ks)
  \/ \E pat \in Patterns : CallDeleteKeysByPatternFromRedis(p, pat)

\* a caller enters one of the exported tier-scoped methods
CallTier(p) ==
  \/ \E k \in Keys, v \in Vals : CallSetInMemoryCache(p, k, v)
  \/ \E k \in Keys, v \in Vals, ttl \in TTLs : CallSetInRedis(p, k, v, ttl)
  \/ \E k \in Keys : CallGetFromInMemoryCache(p, k)
  \/ \E k \in Keys : CallGetFromRedis(p, k)
  \/ \E k \in Keys : CallDelFromInMemoryCache(p, k)
  \/ \E k \in Keys : CallDelFromRedis(p, k)

\* the steps of the coordinator's composite methods
StepCoordinator(p) ==
  \/ SetLocal(p)
  \/ SetRemote(p)
  \/ GetLocal(p)
  \/ GetRemote(p)
  \/ GetPromote(p)
  \/ DelLocal(p)
  \/ DelRemote(p)
  \/ DelMultipleExec(p)
  \/ ScanPage(p)
  \/ DeleteByPatternExec(p)

\* the steps of the tier-scoped methods
StepTier(p) ==
  \/ TierLocalSet(p)
  \/ TierRemoteSet(p)
  \/ TierLocalGet(p)
  \/ TierRemoteGet(p)
  \/ TierLocalDel(p)
  \/ TierRemoteDel(p)

\* one caller using every exported method, with no time passing
Next ==
  \/ CallCoordinator(1)
  \/ CallTier(1)
  \/ StepCoordinator(1)
  \/ StepTier(1)

Spec == Init /\ [][Next]_vars

\* one caller using the composite methods alone, with no time passing
NextCoordinator ==
  \/ CallCoordinator(1)
  \/ StepCoordinator(1)

SpecCoordinator == Init /\ [][NextCoordinator]_vars

\* the key followed while time passes; the other keys are written by Set
\* alone, to fill the local budget
TimedKey == KeyOrder[1]

\* one caller writing and reading through the coordinator or writing the
\* remote tier directly, while time passes
NextTimed ==
  \/ \E v \in Vals : CallSet(1, TimedKey, v)
  \/ \E k \in Keys \ {TimedKey} : CallSet(1, k, "a")
  \/ \E v \in Vals, ttl \in TTLs : CallSetWithTTL(1, TimedKey, v, ttl)
  \/ CallGet(1, TimedKey)
  \/ \E v \in Vals, ttl \in TTLs : CallSetInRedis(1, TimedKey, v, ttl)
  \/ SetLocal(1)
  \/ SetRemote(1)
  \/ GetLocal(1)
  \/ GetRemote(1)
  \/ GetPromote(1)
  \/ TierRemoteSet(1)
  \/ Tick

SpecTimed == Init /\ [][NextTimed]_vars

\* the key the two callers contend for
HotKey == KeyOrder[1]

\* two callers using Set, Get and Del on one key at once: the tier calls of
\* their methods interleave in every order, with no time passing
NextConcurrent ==
  \E p \in Procs :
    \/ \E v \in Vals : CallSet(p, HotKey, v)
    \/ CallGet(p, HotKey)
    \/ CallDel(p, HotKey)
    \/ SetLocal(p)
    \/ SetRemote(p)
    \/ GetLocal(p)
    \/ GetRemote(p)
    \/ GetPromote(p)
    \/ DelLocal(p)
    \/ DelRemote(p)

SpecConcurrent == Init /\ [][NextConcurrent]_vars

\* time passes between calls, once the writer has returned
Elapse ==
  /\ pc[2] = "done" /\ Ready(1)
  /\ now < MaxLifetime
  /\ now' = now + 1
  /\ kv' = Untracked
  /\ UNCHANGED <<local, remote, origin, sync, pc, call, loc, prev>>

\* caller 2 writes TimedKey once, by SetWithTTL at time 0, and makes no
\* other call; caller 1 then reads the key by Get and writes the other keys
\* by Set, which fills the local budget; time passes between its calls
NextLifetime ==
  \/ /\ pc[2] = "idle"
     /\ \E v \in Vals, ttl \in TTLs : CallSetWithTTL(2, TimedKey, v, ttl)
  \/ SetLocal(2)
  \/ SetRemote(2)
  \/ pc[2] = "done" /\ CallGet(1, TimedKey)
  \/ /\ pc[2] = "done"
     /\ \E k \in Keys \ {TimedKey} : CallSet(1, k, "a")
  \/ GetLocal(1)
  \/ GetRemote(1)
  \/ GetPromote(1)
  \/ SetLocal(1)
  \/ SetRemote(1)
  \/ Elapse

SpecLifetime == Init /\ [][NextLifetime]_vars

\* one caller writing keys and deleting by pattern, with no time passing
NextScan ==
  \/ \E k \in Keys, v \in Vals : CallSet(1, k, v)
  \/ \E pat \in Patterns : CallDeleteKeysByPatternFromRedis(1, pat)
  \/ SetLocal(1)
  \/ SetRemote(1)
  \/ ScanPage(1)
  \/ DeleteByPatternExec(1)

\* the caller's thread goes on running: a DeleteKeysByPatternFromRedis that
\* can take its next step does take it
SpecScan ==
  /\ Init /\ [][NextScan]_vars
  /\ WF_vars(ScanPage(1)) /\ WF_vars(DeleteByPatternExec(1))

----------------------------------------------------------------------------
(* Claims.  They speak of caller 1's completed call: its arguments are in  *)
(* call[1], what it returned and did in loc[1], and the Set or Del that    *)
(* completed just before it in prev.                                       *)

Done(op) == pc[1] = "done" /\ call[1].op = op

\* the completed call came straight after the call in prev, no time between
StraightAfter(op) ==
  /\ prev.op = op
  /\ prev.key = call[1].key
  /\ prev.at = loc[1].t0
  /\ loc[1].at = loc[1].t0

C3_DeletedEverywhere ==
  /\ Done("Del") =>
       /\ ~LocalGet(local, now, call[1].key).found
       /\ ~RedisGet(remote, now, call[1].key).found
  /\ (/\ pc[1] = "done"
      /\ call[1].op \in {"Get", "GetFromInMemoryCache", "GetFromRedis"}
      /\ StraightAfter("Del"))
       => ~loc[1].found

\* C3: once Del(k) has returned the local tier does not hold k, and a
\* GetFromInMemoryCache(k) straight after it finds nothing; when the remote
\* DEL of the Del succeeded the remote tier does not hold k either, and a Get
\* or GetFromRedis of k straight after it finds nothing.
C3_Deleted ==
  /\ Done("Del") =>
       /\ ~LocalGet(local, now, call[1].key).found
       /\ loc[1].rok => ~RedisGet(remote, now, call[1].key).found
  /\ (Done("GetFromInMemoryCache") /\ StraightAfter("Del")) => ~loc[1].found
  /\ (/\ pc[1] = "done"
      /\ call[1].op \in {"Get", "GetFromRedis"}
      /\ StraightAfter("Del")
      /\ prev.rok)
       => ~loc[1].found

\* the Del removed an entry of the remote tier and the Get after it missed
C3_Witness ==
  /\ Done("Get") /\ StraightAfter("Del")
  /\ prev.rok /\ prev.n = 1
  /\ ~loc[1].found /\ loc[1].rcalls = 1 /\ loc[1].rok

\* the completed call took no time and none has passed since
Instant == loc[1].at = loc[1].t0 /\ now = loc[1].at

\* the write SetInMemoryCache hands to the local engine for key k, value v
LocalWrite(k, v, t) ==
  [cmd |-> "SetWithTTL", key |-> k, val |-> v, ttl |-> ExpiresInMemory,
   cursor |-> 0, at |-> t]

\* C2 as stated: a Get(k) that misses the local tier while the remote tier
\* holds k with v returns (v, true), and the local tier holds (k, v) once it
\* has returned.
C2_PromotionAlways ==
  (/\ Done("Get") /\ Instant
   /\ loc[1].rcalls = 1
   /\ Live(remote[call[1].key], now))
    => /\ loc[1].found
       /\ loc[1].value = remote[call[1].key].val
       /\ LocalGet(local, now, call[1].key)
            = [found |-> TRUE, value |-> remote[call[1].key].val]

\* C2: a Get(k) that misses the local tier while the remote tier holds k
\* with v, and whose remote read succeeds, returns (v, true) and hands (k, v)
\* to the local engine; the local tier holds (k, v) once the Get has
\* returned when the engine admitted the entry.
C2_Promotion ==
  (/\ Done("Get") /\ Instant
   /\ loc[1].rcalls = 1
   /\ Live(remote[call[1].key], now)
   /\ loc[1].rok)
    => /\ loc[1].found
       /\ loc[1].value = remote[call[1].key].val
       /\ loc[1].lcmd = LocalWrite(call[1].key, remote[call[1].key].val, now)
       /\ loc[1].admitted =>
            LocalGet(local, now, call[1].key)
              = [found |-> TRUE, value |-> remote[call[1].key].val]

\* the local entry of a Set had expired, the remote entry had not, and the
\* Get brought the value back into the local tier
C2_Witness ==
  /\ Done("Get") /\ Instant
  /\ prev.op = "Set" /\ prev.key = call[1].key /\ prev.admitted /\ prev.rok
  /\ loc[1].t0 > prev.at + ExpiresInMemory
  /\ loc[1].rcalls = 1 /\ loc[1].found /\ loc[1].value = prev.val
  /\ loc[1].admitted
  /\ LocalGet(local, now, call[1].key) = [found |-> TRUE, value |-> prev.val]

\* C7 as stated: the entry of SetWithTTL(k, v, t), not written again, is
\* absent from the local tier once t has elapsed since the write.
C7_ExpirationRespected ==
  (/\ Done("SetWithTTL") /\ loc[1].admitted /\ loc[1].rok
   /\ now > loc[1].lcmd.at + call[1].ttl)
    => ~LocalGet(local, now, call[1].key).found

\* C8: Set, SetWithTTL and the promotion of Get hand the local engine the
\* configured local expiration, and the entry expires that long after the
\* write; Set hands the remote store the configured remote expiration and
\* SetWithTTL(k, v, t) hands it t, and the remote entry expires that long
\* after the write.
C8_TTLAssignment ==
  /\ (pc[1] = "done" /\ call[1].op \in {"Set", "SetWithTTL"}) =>
       /\ loc[1].lcmd.ttl = ExpiresInMemory
       /\ loc[1].rcmd.ttl = IF call[1].op = "Set" THEN ExpiresRedis
                            ELSE call[1].ttl
       /\ loc[1].admitted =>
            local[call[1].key].exp = loc[1].lcmd.at + ExpiresInMemory
       /\ loc[1].rok =>
            remote[call[1].key].exp = loc[1].rcmd.at + loc[1].rcmd.ttl
  /\ (Done("Get") /\ loc[1].lcmd.cmd # "none") =>
       /\ loc[1].lcmd.ttl = ExpiresInMemory
       /\ loc[1].admitted =>
            local[call[1].key].exp = loc[1].lcmd.at + ExpiresInMemory

\* a SetWithTTL whose expiration differs from the local one has written both
\* tiers, at a time other than 0
C8_Witness ==
  /\ Done("SetWithTTL")
  /\ call[1].ttl # ExpiresInMemory
  /\ loc[1].admitted /\ loc[1].rok
  /\ loc[1].lcmd.at > 0
  /\ local[call[1].key].exp # remote[call[1].key].exp

DbP == "DeleteKeysByPatternFromRedis"

\* C4: no step of DeleteKeysByPatternFromRedis changes a key that does not
\* match the pattern, and when it returns with no remote command failed it
\* returns nil and the remote tier holds no key that matches the pattern.
C4_PatternDeletionExact ==
  [][ (call[1].op = DbP /\ pc[1] \in {"dp_scan", "dp_exec"}) =>
        /\ \A k \in Keys :
             ~Match(call[1].pattern, k) => remote'[k] = remote[k]
        /\ (pc'[1] = "done" /\ loc'[1].rok) =>
             /\ ~loc'[1].err
             /\ \A k \in Keys :
                  Match(call[1].pattern, k) => ~Live(remote'[k], now') ]_vars

\* the matching keys came on two pages and the pipeline removed both
C4_Witness ==
  /\ Done(DbP) /\ loc[1].rok /\ ~loc[1].err
  /\ loc[1].pages = 2 /\ Len(loc[1].acc) = 2 /\ loc[1].n = 2
  /\ \A k \in Keys : Match(call[1].pattern, k) /\ ~Live(remote[k], now)

\* C5 as stated, failed remote writes set aside as well: with no call in
\* flight, a key the local tier holds is held by the remote tier with the
\* same value.
C5_NeverStale ==
  Ready(1) =>
    \A k \in Keys :
      (Live(local[k], now) /\ sync[k] # "local_only") =>
        (Live(remote[k], now) /\ remote[k].val = local[k].val)

\* C5: with no call in flight, a key the local tier holds is held by the
\* remote tier with the same value, unless the remote write of the Set or
\* SetWithTTL that stored it failed, or a DelMultipleKeysFromRedis or
\* DeleteKeysByPatternFromRedis has deleted the key from the remote tier
\* since.
C5_InSync ==
  Ready(1) =>
    \A k \in Keys :
      (Live(local[k], now) /\ sync[k] = "synced") =>
        (Live(remote[k], now) /\ remote[k].val = local[k].val)

\* a pattern deletion removed a key from the remote tier and the key the
\* local tier holds is still backed by the remote tier
C5_Witness ==
  /\ Done(DbP) /\ loc[1].rok /\ loc[1].n = 1
  /\ \E k \in Keys :
       /\ Live(local[k], now) /\ sync[k] = "synced"
       /\ Live(remote[k], now) /\ remote[k].val = local[k].val

\* what a completed Set or SetWithTTL has handed to the two tiers
PutWritesBoth ==
  /\ loc[1].lcmd.cmd = "SetWithTTL"
  /\ loc[1].lcmd.key = call[1].key /\ loc[1].lcmd.val = call[1].val
  /\ loc[1].rcmd.cmd = "SET"
  /\ loc[1].rcmd.key = call[1].key /\ loc[1].rcmd.val = call[1].val

\* what a completed Get that wrote the local tier has done: read the value
\* from the remote tier and handed that value to the local engine
GetPromotesRead ==
  /\ loc[1].rcalls = 1 /\ loc[1].rok /\ loc[1].found
  /\ loc[1].value = remote[call[1].key].val
  /\ loc[1].lcmd.key = call[1].key /\ loc[1].lcmd.val = loc[1].value

\* C6 as stated: every local write is part of a Set or SetWithTTL that also
\* writes the same key and value to the remote tier, or a promotion by Get
\* of the value just read; every local entry was written by one of the two.
C6_ProvenanceAlways ==
  /\ \A k \in Keys :
       IF local[k].val = Nil THEN origin[k] = "none"
       ELSE origin[k] \in {"put", "promote"}
  /\ pc[1] = "done" =>
       /\ call[1].op \in {"Set", "SetWithTTL"} => PutWritesBoth
       /\ (call[1].op = "Get" /\ loc[1].lcmd.cmd # "none") => GetPromotesRead
       /\ call[1].op \notin {"Set", "SetWithTTL", "Get"} =>
            loc[1].lcmd.cmd = "none"

\* C6: every local write made by Set, SetWithTTL or Get is part of a Set or
\* SetWithTTL that also writes the same key and value to the remote tier, or
\* a promotion by Get of the value just read; the only other local write is
\* a direct call of SetInMemoryCache, which writes the local tier alone;
\* every local entry was written by one of the three.
C6_Provenance ==
  /\ \A k \in Keys :
       IF local[k].val = Nil THEN origin[k] = "none"
       ELSE origin[k] \in {"put", "promote", "direct"}
  /\ pc[1] = "done" =>
       /\ call[1].op \in {"Set", "SetWithTTL"} => PutWritesBoth
       /\ (call[1].op = "Get" /\ loc[1].lcmd.cmd # "none") => GetPromotesRead
       /\ call[1].op \notin {"Set", "SetWithTTL", "Get", "SetInMemoryCache"} =>
            loc[1].lcmd.cmd = "none"

\* a Get has promoted, into a full local tier, the value read from the remote
\* tier
C6_Witness ==
  /\ Done("Get") /\ loc[1].admitted
  /\ origin[call[1].key] = "promote"
  /\ local[call[1].key].val = remote[call[1].key].val
  /\ \E k \in Keys \ {call[1].key} : Live(remote[k], now)

\* C10: DelMultipleKeysFromRedis of no keys returns nil having issued no
\* remote command; DeleteKeysByPatternFromRedis whose completed scan found
\* no key returns nil having executed no pipeline; no step of either changes
\* the remote tier.
C10_EmptyKeySetNoDelete ==
  /\ [](/\ (Done("DelMultipleKeysFromRedis") /\ Len(call[1].keys) = 0) =>
             (~loc[1].err /\ loc[1].rcalls = 0)
        /\ (Done(DbP) /\ loc[1].rok /\ Len(loc[1].acc) = 0) =>
             (~loc[1].err /\ loc[1].execs = 0 /\ loc[1].cursor = 0))
  /\ [][ (\/ call'[1].op = "DelMultipleKeysFromRedis" /\ Len(call'[1].keys) = 0
          \/ call'[1].op = DbP /\ Len(loc'[1].acc) = 0)
         => remote' = remote ]_vars

\* a scan of two pages over a remote tier that holds keys found none that
\* matches, and the call returned nil
C10_Witness ==
  /\ Done(DbP) /\ loc[1].rok /\ ~loc[1].err
  /\ loc[1].pages = 2 /\ Len(loc[1].acc) = 0 /\ loc[1].execs = 0
  /\ \E k \in Keys : Live(remote[k], now)

BulkOps == {"DelMultipleKeysFromRedis", DbP}

\* C11: no step of DelMultipleKeysFromRedis or DeleteKeysByPatternFromRedis
\* changes the local tier: every key it held before the call it holds after
\* it with the same value, the keys removed from the remote tier included.
C11_BulkInvalidationRemoteOnly ==
  [][ call'[1].op \in BulkOps => local' = local ]_vars

\* a pattern deletion has removed from the remote tier a key that the local
\* tier holds, and the local tier still serves it
C11_Witness ==
  /\ Done(DbP) /\ loc[1].rok /\ loc[1].n = 1
  /\ \E k \in Keys :
       /\ Match(call[1].pattern, k)
       /\ LocalGet(local, now, k).found
       /\ ~RedisGet(remote, now, k).found

\* C12: DeleteKeysByPatternFromRedis runs its pipeline only once a scan page
\* has returned cursor 0; a scan page that fails ends the call at once with
\* the error, no pipeline run and the keys of the earlier pages kept; no
\* step of the scan changes the remote tier.
C12_DeleteAfterFullEnumeration ==
  /\ [](call[1].op = DbP =>
          /\ (pc[1] = "dp_exec" \/ loc[1].execs > 0) =>
               (loc[1].cursor = 0 /\ loc[1].pages > 0)
          /\ loc[1].execs <= 1)
  /\ [][ (call[1].op = DbP /\ pc[1] = "dp_scan") =>
           /\ remote' = remote
           /\ ~loc'[1].rok =>
                /\ pc'[1] = "done" /\ loc'[1].err
                /\ loc'[1].execs = 0
                /\ loc'[1].acc = loc[1].acc /\ loc'[1].pages = loc[1].pages ]_vars

\* the first page returned a matching key, the second page failed, and the
\* call returned the error with the key still in the remote tier
C12_Witness ==
  /\ Done(DbP) /\ loc[1].err /\ ~loc[1].rok
  /\ loc[1].pages = 1 /\ Len(loc[1].acc) = 1 /\ loc[1].execs = 0
  /\ loc[1].rcalls = 2
  /\ RedisGet(remote, now, loc[1].acc[1]).found

\* C13: the first SCAN of DeleteKeysByPatternFromRedis is handed cursor 0
\* and every later one the cursor the page before it returned; after a page
\* the loop goes round again exactly when the cursor returned is not 0, be
\* the page empty or not; the store returning cursor 0 after finitely many
\* pages, the call returns.
C13_CursorDrivenScan ==
  /\ [][ (call[1].op = DbP /\ pc[1] = "dp_scan") =>
           /\ loc'[1].rcmd.cmd = "SCAN"
           /\ loc'[1].rcmd.cursor = loc[1].cursor
           /\ loc[1].rcalls = 0 => loc'[1].rcmd.cursor = 0
           /\ loc'[1].rok => (pc'[1] = "dp_scan" <=> loc'[1].cursor # 0) ]_vars
  /\ (pc[1] = "dp_scan") ~> (pc[1] = "done")

\* the first page was empty and returned a cursor other than 0, the second
\* page returned the one matching key, and the pipeline removed it
C13_Witness ==
  /\ Done(DbP) /\ loc[1].rok
  /\ loc[1].pages = 2 /\ loc[1].rcmd.cursor = 1 /\ loc[1].cursor = 0
  /\ loc[1].acc = << KeyOrder[2] >>
  /\ loc[1].execs = 1 /\ loc[1].n = 1

Puts == {"Set", "SetWithTTL"}

\* C14 as stated: a Set or SetWithTTL whose remote write failed has returned
\* no error, has issued the one remote write, and the local tier holds the
\* new value.
C14_FailureSwallowedAlways ==
  (pc[1] = "done" /\ call[1].op \in Puts /\ ~loc[1].rok) =>
    /\ ~loc[1].err /\ loc[1].rcalls = 1
    /\ LocalGet(local, now, call[1].key)
         = [found |-> TRUE, value |-> call[1].val]

\* C14: a Set or SetWithTTL whose remote write failed has returned no error
\* and has issued the one remote write; the local tier holds the new value
\* when the local engine admitted the entry.
C14_FailureSwallowed ==
  (pc[1] = "done" /\ call[1].op \in Puts /\ ~loc[1].rok) =>
    /\ ~loc[1].err /\ loc[1].rcalls = 1
    /\ loc[1].admitted =>
         LocalGet(local, now, call[1].key)
           = [found |-> TRUE, value |-> call[1].val]

\* the remote write of a Set failed: the local tier serves the new value and
\* the remote tier still holds the old one
C14_Witness ==
  /\ Done("Set") /\ ~loc[1].rok /\ loc[1].admitted /\ ~loc[1].err
  /\ LocalGet(local, now, call[1].key).value = call[1].val
  /\ RedisGet(remote, now, call[1].key).found
  /\ RedisGet(remote, now, call[1].key).value # call[1].val

\* C15: while a Set or SetWithTTL is at its local write it has handed
\* nothing to the remote client; once it has handed the remote write, the
\* local write, wait included, was made before, at no later time.
C15_LocalBeforeRemote ==
  call[1].op \in Puts =>
    /\ pc[1] = "set_local" =>
         /\ loc[1].lcmd.cmd = "none" /\ loc[1].rcmd.cmd = "none"
         /\ loc[1].rcalls = 0
    /\ loc[1].rcmd.cmd # "none" =>
         /\ pc[1] = "done"
         /\ loc[1].lcmd.cmd = "SetWithTTL"
         /\ loc[1].lcmd.key = loc[1].rcmd.key
         /\ loc[1].lcmd.at <= loc[1].rcmd.at
    /\ pc[1] = "set_remote" => loc[1].lcmd.cmd = "SetWithTTL"

\* time passed between the local write and the remote write of a SetWithTTL
\* that wrote both tiers
C15_Witness ==
  /\ Done("SetWithTTL") /\ loc[1].admitted /\ loc[1].rok
  /\ loc[1].lcmd.at < loc[1].rcmd.at
  /\ LocalGet(local, now, call[1].key).found
  /\ RedisGet(remote, now, call[1].key).found

\* a completed Get that missed the local tier and whose remote read found
\* nothing or failed has returned not-found and handed nothing to the local
\* engine
MissReturnsNothing ==
  (/\ Done("Get") /\ loc[1].rcalls = 1
   /\ (~loc[1].rok \/ ~Live(remote[call[1].key], now)))
    => /\ ~loc[1].found /\ loc[1].value = Nil
       /\ loc[1].lcmd.cmd = "none"

\* the completed Get(k) follows a Get(k) that found nothing, with nothing
\* but direct writes of the remote tier between the two
AfterMiss == Done("Get") /\ prev.op = "Get" /\ prev.key = call[1].key

\* C16 as stated, for the completed call: a Get that misses both tiers or
\* whose remote read fails returns not-found and promotes nothing; a later
\* Get of the key consults the remote tier again and returns (v, true) once
\* the remote tier holds the key with v.
C16_MissNotCachedAlways ==
  /\ MissReturnsNothing
  /\ (AfterMiss /\ Live(remote[call[1].key], now)) =>
       /\ loc[1].rcalls = 1
       /\ loc[1].found /\ loc[1].value = remote[call[1].key].val

\* C16: a Get that misses both tiers or whose remote read fails returns
\* not-found, promotes nothing and leaves both tiers as they were; a later
\* Get of the key consults the remote tier again and, when that read
\* succeeds, returns (v, true) once the remote tier holds the key with v.
C16_MissNotCached ==
  /\ [](/\ MissReturnsNothing
        /\ AfterMiss =>
             /\ loc[1].rcalls = 1
             /\ (loc[1].rok /\ Live(remote[call[1].key], now)) =>
                  (loc[1].found /\ loc[1].value = remote[call[1].key].val))
  /\ [][ (call[1].op = "Get" /\ pc[1] = "get_remote" /\ pc'[1] = "done") =>
           /\ ~loc'[1].found
           /\ local' = local /\ remote' = remote ]_vars

\* a Get found nothing in either tier, the key was then written to the
\* remote tier directly, and the next Get of the key returned the value
C16_Witness ==
  /\ AfterMiss /\ prev.rok
  /\ loc[1].rcalls = 1 /\ loc[1].rok
  /\ loc[1].found /\ loc[1].value = remote[call[1].key].val
  /\ loc[1].admitted

\* what a plain map m returns for key k
MapGet(m, k) == [found |-> m[k] # Nil, value |-> m[k]]

\* C17: in a history of Set, Get and Del calls made one at a time, with no
\* remote command failed and no time passed, a completed Get(k) has returned
\* what the plain map of the Sets and Dels returns for k, whatever the local
\* engine admitted, dropped or evicted.
C17_MapEquivalence ==
  (Done("Get") /\ kv.on) =>
    [found |-> loc[1].found, value |-> loc[1].value]
      = MapGet(kv.map, call[1].key)

\* the map holds both keys, the local tier has room for one, and the Get
\* returned the map's value from the remote tier
C17_Witness ==
  /\ Done("Get") /\ kv.on
  /\ \A k \in Keys : kv.map[k] # Nil
  /\ kv.map[KeyOrder[1]] # kv.map[KeyOrder[2]]
  /\ loc[1].rcalls = 1 /\ loc[1].found
  /\ loc[1].value = kv.map[call[1].key]

\* both callers have returned from calls that ran at once, each overlapping
\* the other and no other call, with no remote command failed
RanTogether ==
  \A p \in Procs : pc[p] = "done" /\ loc[p].conc = "one" /\ loc[p].rok

\* C18 as stated: once a Get(k) and a Del(k) that ran at once have both
\* returned, the local tier does not hold k.
C18_NoResurrection ==
  (/\ RanTogether
   /\ {call[1].op, call[2].op} = {"Get", "Del"}
   /\ call[1].key = call[2].key)
    => ~LocalGet(local, now, call[1].key).found

\* C19 as stated: once two Sets of a key with different values that ran at
\* once have both returned, each having written both tiers, the two tiers
\* hold the same value for the key.
C19_WritersConverge ==
  (/\ RanTogether
   /\ \A p \in Procs : call[p].op = "Set" /\ loc[p].admitted
   /\ call[1].key = call[2].key /\ call[1].val # call[2].val)
    => local[call[1].key].val = remote[call[1].key].val

\* caller 1 has completed a Get of the key that caller 2 wrote once, by a
\* SetWithTTL that has returned
ReadOfSingleWrite ==
  /\ Done("Get")
  /\ pc[2] = "done" /\ call[2].op = "SetWithTTL"
  /\ call[1].key = call[2].key

\* the instant the remote entry of caller 2's SetWithTTL expires
RemoteExpiry == loc[2].rcmd.at + call[2].ttl

====
